---- MODULE Spec2Model ----
(***************************************************************************)
(* A model of ingestion/parser_wrapper.py: the MessageParser facade, its   *)
(* protocol detector, the FIX (tag=value) extractor and the WebSocket JSON *)
(* extractor, with the statistics counters.                                *)
(*                                                                         *)
(* Text is a sequence of one-character strings.  A byte buffer is a record *)
(* [bytes, rest]: `bytes` are the buffer's bytes up to and including an    *)
(* opening brace (or the whole buffer when nothing follows), `rest` is     *)
(* what follows the opening brace: nothing, the members of a well-formed   *)
(* JSON object up to its closing brace, or a truncated object.             *)
(***************************************************************************)
EXTENDS Integers, Sequences, FiniteSets, TLC

VARIABLES
    messages_parsed,  \* MessageParser.messages_parsed
    parse_errors,     \* MessageParser.parse_errors
    pc,               \* the single-threaded caller: "idle", "called", "returned"
    data,             \* the argument of the call in progress / last returned
    protocol,         \* what _detect_protocol gave for data
    result,           \* the returned ParseResult
    message,          \* the returned Optional[MarketMessage]: <<>> or <<m>>
    raised,           \* the exception that left the extractor, "none" if none
    nSuccess,         \* history: SUCCESS returns since construction / reset
    nFailure,         \* history: non-SUCCESS returns since construction / reset
    thr               \* the threads sharing one parser (concurrent use)

vars == <<messages_parsed, parse_errors, pc, data, protocol, result, message,
          raised, nSuccess, nFailure, thr>>

-----------------------------------------------------------------------------
(* Bounds of the model *)

MaxCalls == 2

MaxFields == 2

MaxRaw == 2

MaxOptional == 2

MaxThreadCalls == 1

-----------------------------------------------------------------------------
(* Bytes and characters *)

SOH == "SOH"   \* 0x01, the FIX delimiter
SP == "SP"     \* 0x20, whitespace for Python and for JSON
VT == "VT"     \* 0x0b, whitespace for str.lstrip but not for JSON
BAD == "BAD"   \* 0xff, a byte that is no valid UTF-8

Digits == {"0", "1", "2", "3", "4", "5", "6", "7", "8", "9"}

DigitVal(c) ==
    CASE c = "0" -> 0 [] c = "1" -> 1 [] c = "2" -> 2 [] c = "3" -> 3
      [] c = "4" -> 4 [] c = "5" -> 5 [] c = "6" -> 6 [] c = "7" -> 7
      [] c = "8" -> 8 [] c = "9" -> 9

\* str.isspace over the model's characters
Whitespace == {SP, VT}

\* what the JSON grammar skips before a value
JsonWhitespace == {SP}

\* str.lower, character by character
LowerChar(c) ==
    CASE c = "A" -> "a" [] c = "B" -> "b" [] c = "D" -> "d" [] c = "E" -> "e"
      [] c = "L" -> "l" [] c = "O" -> "o" [] c = "Q" -> "q" [] c = "R" -> "r"
      [] c = "S" -> "s" [] c = "T" -> "t" [] c = "U" -> "u" [] c = "Y" -> "y"
      [] OTHER -> c

lower(s) == [i \in 1..Len(s) |-> LowerChar(s[i])]

\* str.replace(a, b) for single characters
replace(s, a, b) == [i \in 1..Len(s) |-> IF s[i] = a THEN b ELSE s[i]]

Contains(s, c) == \E i \in 1..Len(s) : s[i] = c

FirstIndex(s, c) == CHOOSE i \in 1..Len(s) : s[i] = c /\ \A j \in 1..(i - 1) : s[j] # c

\* str.split(sep): the segments between the occurrences of sep
RECURSIVE split(_, _)
split(s, sep) ==
    IF ~Contains(s, sep) THEN <<s>>
    ELSE LET i == FirstIndex(s, sep)
         IN  <<SubSeq(s, 1, i - 1)>> \o split(SubSeq(s, i + 1, Len(s)), sep)

\* str.split(sep, 1) of a string that contains sep: <<before, after>>
split1(s, sep) ==
    LET i == FirstIndex(s, sep)
    IN  <<SubSeq(s, 1, i - 1), SubSeq(s, i + 1, Len(s))>>

RECURSIVE lstrip(_)
lstrip(s) ==
    IF s # <<>> /\ Head(s) \in Whitespace THEN lstrip(Tail(s)) ELSE s

RECURSIVE rstrip(_)
rstrip(s) ==
    IF s # <<>> /\ s[Len(s)] \in Whitespace THEN rstrip(SubSeq(s, 1, Len(s) - 1)) ELSE s

strip(s) == rstrip(lstrip(s))

\* bytes.decode('utf-8', errors='ignore'): invalid bytes are dropped
DecodeIgnore(bytes) == SelectSeq(bytes, LAMBDA b : b # BAD)

\* bytes.decode('utf-8') raises UnicodeDecodeError on an invalid byte
CanDecode(bytes) == ~Contains(bytes, BAD)

\* The text int() accepts, over the model's characters: optional surrounding
\* whitespace, an optional minus sign, one or more digits.
IsIntText(s) ==
    LET t == strip(s)
        d == IF t # <<>> /\ Head(t) = "-" THEN Tail(t) ELSE t
    IN  d # <<>> /\ \A i \in 1..Len(d) : d[i] \in Digits

RECURSIVE DigitsValue(_)
DigitsValue(d) ==
    IF d = <<>> THEN 0
    ELSE 10 * DigitsValue(SubSeq(d, 1, Len(d) - 1)) + DigitVal(d[Len(d)])

IntOfText(s) ==
    LET t == strip(s)
    IN  IF Head(t) = "-" THEN 0 - DigitsValue(Tail(t)) ELSE DigitsValue(t)

-----------------------------------------------------------------------------
(* The field model: the enumerations and MarketMessage *)

Side == {"UNKNOWN", "BUY", "SELL"}

MessageType ==
    {"UNKNOWN", "NEW_ORDER", "CANCEL_ORDER", "MODIFY_ORDER", "TRADE", "QUOTE",
     "MARKET_DATA"}

ProtocolType == {"UNKNOWN", "FIX", "WEBSOCKET_JSON"}

ParseResult ==
    {"SUCCESS", "INVALID_FORMAT", "INCOMPLETE_MESSAGE", "UNKNOWN_PROTOCOL",
     "BUFFER_OVERFLOW"}

\* MarketMessage(): the dataclass defaults.  price holds twice the price, so
\* that the mid-price (bid + ask) / 2.0 of integral quotes stays an integer.
MarketMessage ==
    [timestamp |-> 0, symbol |-> <<>>, side |-> "UNKNOWN", price |-> 0,
     size |-> 0, message_type |-> "UNKNOWN"]

\* Optional[MarketMessage]
None == <<>>

Some(m) == <<m>>

\* What an extractor does: return (status, message), or let an exception out
Return(status, m) == [raised |-> "none", status |-> status, message |-> m]

Raise(e) == [raised |-> e, status |-> "NONE", message |-> None]

-----------------------------------------------------------------------------
(* Byte buffers *)

\* JSON values: a string, a number, null; Absent stands for a missing key
Str(s) == [k |-> "str", s |-> s, n |-> 0]

Num(n) == [k |-> "num", s |-> <<>>, n |-> n]

Null == [k |-> "null", s |-> <<>>, n |-> 0]

Absent == [k |-> "absent", s |-> <<>>, n |-> 0]

Keys ==
    {"symbol", "side", "price", "size", "bid", "ask", "bid_size", "ask_size",
     "type", "timestamp"}

EmptyObject == [key \in Keys |-> Absent]

NoRest == [form |-> "none", obj |-> EmptyObject]

Truncated == [form |-> "truncated", obj |-> EmptyObject]

Object(obj) == [form |-> "object", obj |-> obj]

Buffer(bytes, rest) == [bytes |-> bytes, rest |-> rest]

\* len(data) < 2: whatever follows an opening brace is at least one byte
ShorterThan2(d) ==
    Len(d.bytes) + (IF d.rest.form = "none" THEN 0 ELSE 1) < 2

\* data.startswith(b'8=')
StartsWith8Eq(d) ==
    Len(d.bytes) >= 2 /\ d.bytes[1] = "8" /\ d.bytes[2] = "="

-----------------------------------------------------------------------------
(* MessageParser._detect_protocol *)

\* data.decode('utf-8', errors='ignore').lstrip().startswith('{')
LooksLikeJson(d) ==
    LET data_str == lstrip(DecodeIgnore(d.bytes))
    IN  data_str # <<>> /\ Head(data_str) = "{"

_detect_protocol(d) ==
    IF ShorterThan2(d) THEN "UNKNOWN"
    ELSE IF StartsWith8Eq(d) THEN "FIX"
    ELSE IF LooksLikeJson(d) THEN "WEBSOCKET_JSON"
    ELSE "UNKNOWN"

-----------------------------------------------------------------------------
(* MessageParser._parse_fix_message *)

T55 == <<"5", "5">>

T54 == <<"5", "4">>

T44 == <<"4", "4">>

T38 == <<"3", "8">>

T35 == <<"3", "5">>

\* fields[tag] = value
Put(fields, tag, value) ==
    [t \in DOMAIN fields \cup {tag} |-> IF t = tag THEN value ELSE fields[t]]

\* for pair in ...: if '=' in pair: tag, value = pair.split('=', 1); fields[tag] = value
RECURSIVE CollectFields(_, _)
CollectFields(pairs, fields) ==
    IF pairs = <<>> THEN fields
    ELSE LET pair == Head(pairs)
         IN  IF Contains(pair, "=")
             THEN CollectFields(Tail(pairs),
                                Put(fields, split1(pair, "=")[1], split1(pair, "=")[2]))
             ELSE CollectFields(Tail(pairs), fields)

\* data.decode('utf-8').replace('\x01', '|') ... fix_str.split('|')
FixPairs(bytes) == split(replace(bytes, SOH, "|"), "|")

FixFieldMap(bytes) == CollectFields(FixPairs(bytes), <<>>)

\* if side_str == '1': BUY elif side_str == '2': SELL
FixSide(fields) ==
    IF T54 \notin DOMAIN fields THEN "UNKNOWN"
    ELSE IF fields[T54] = <<"1">> THEN "BUY"
    ELSE IF fields[T54] = <<"2">> THEN "SELL"
    ELSE "UNKNOWN"

FixMessageType(fields) ==
    IF T35 \notin DOMAIN fields THEN "UNKNOWN"
    ELSE IF fields[T35] = <<"D">> THEN "NEW_ORDER"
    ELSE IF fields[T35] = <<"F">> THEN "CANCEL_ORDER"
    ELSE IF fields[T35] = <<"G">> THEN "MODIFY_ORDER"
    ELSE IF fields[T35] = <<"8">> THEN "TRADE"
    ELSE "UNKNOWN"

\* symbol = fields.get('55'); if not symbol
FixSymbolMissing(fields) == T55 \notin DOMAIN fields \/ fields[T55] = <<>>

\* message.size = int(fields['38'])
FixSize(fields) == IF T38 \in DOMAIN fields THEN IntOfText(fields[T38]) ELSE 0

\* message.price = float(fields['44']): over the model's characters float()
\* accepts the texts int() accepts
FixPrice(fields) == IF T44 \in DOMAIN fields THEN 2 * IntOfText(fields[T44]) ELSE 0

InvalidFormat_KeepsMessage == Return("INVALID_FORMAT", Some(MarketMessage))

\* return ParseResult.INVALID_FORMAT, None
InvalidFormat == Return("INVALID_FORMAT", None)

_parse_fix_message(d) ==
    IF ~CanDecode(d.bytes) THEN InvalidFormat
    ELSE LET fields == FixFieldMap(d.bytes)
         IN  IF FixSymbolMissing(fields) THEN InvalidFormat
             ELSE IF T44 \in DOMAIN fields /\ ~IsIntText(fields[T44])
                  THEN InvalidFormat
             ELSE IF T38 \in DOMAIN fields /\ ~IsIntText(fields[T38])
                  THEN InvalidFormat
             ELSE Return("SUCCESS",
                         Some([MarketMessage EXCEPT
                                  !.symbol = fields[T55],
                                  !.side = FixSide(fields),
                                  !.price = FixPrice(fields),
                                  !.size = FixSize(fields),
                                  !.message_type = FixMessageType(fields)]))

-----------------------------------------------------------------------------
(* MessageParser._parse_websocket_json *)

\* json.loads(data.decode('utf-8')) gives a dict exactly for optional JSON
\* whitespace, an opening brace and a well-formed rest; anything else raises
\* json.JSONDecodeError
JsonLoadsOk(d) ==
    /\ d.rest.form = "object"
    /\ d.bytes # <<>>
    /\ d.bytes[Len(d.bytes)] = "{"
    /\ \A i \in 1..(Len(d.bytes) - 1) : d.bytes[i] \in JsonWhitespace

\* dict.get(key, default)
Get(json_data, key, default) ==
    IF json_data[key] = Absent THEN default ELSE json_data[key]

\* not value
Falsy(v) ==
    \/ v.k \in {"absent", "null"}
    \/ v.k = "str" /\ v.s = <<>>
    \/ v.k = "num" /\ v.n = 0

\* int(value) and float(value): the exception raised, "none" if none
ConvFault(v) ==
    IF v.k = "num" THEN "none"
    ELSE IF v.k = "str" THEN (IF IsIntText(v.s) THEN "none" ELSE "ValueError")
    ELSE "TypeError"

\* int(value) and float(value) when nothing is raised
Conv(v) == IF v.k = "num" THEN v.n ELSE IntOfText(v.s)

\* value.lower(): the exception raised, "none" if none
LowerFault(v) == IF v.k = "str" THEN "none" ELSE "AttributeError"

\* if 'price' in json_data
JsonHasPrice(json_data) == json_data["price"] # Absent

\* elif 'bid' in json_data and 'ask' in json_data
JsonHasQuote(json_data) ==
    /\ ~JsonHasPrice(json_data)
    /\ json_data["bid"] # Absent
    /\ json_data["ask"] # Absent

\* The exceptions of the extractor's statements, in the order they execute
JsonFaults(json_data) ==
    <<LowerFault(Get(json_data, "side", Str(<<>>)))>>
    \o (IF JsonHasPrice(json_data)
        THEN <<ConvFault(json_data["price"]),
               ConvFault(Get(json_data, "size", Num(0)))>>
        ELSE IF JsonHasQuote(json_data)
        THEN <<ConvFault(json_data["bid"]),
               ConvFault(json_data["ask"]),
               ConvFault(Get(json_data, "bid_size", Num(0))),
               ConvFault(Get(json_data, "ask_size", Num(0)))>>
        ELSE <<>>)
    \o <<LowerFault(Get(json_data, "type", Str(<<>>)))>>
    \o (IF json_data["timestamp"] # Absent
        THEN <<ConvFault(json_data["timestamp"])>>
        ELSE <<>>)

\* The first exception raised, "none" if the statements all complete
RECURSIVE FirstFault(_)
FirstFault(faults) ==
    IF faults = <<>> THEN "none"
    ELSE IF Head(faults) # "none" THEN Head(faults)
    ELSE FirstFault(Tail(faults))

\* side_str = json_data.get('side', '').lower()
JsonSide(json_data) ==
    LET side_str == lower(Get(json_data, "side", Str(<<>>)).s)
    IN  IF side_str \in {<<"b", "u", "y">>, <<"b">>} THEN "BUY"
        ELSE IF side_str \in {<<"s", "e", "l", "l">>, <<"s">>} THEN "SELL"
        ELSE "UNKNOWN"

\* message.price (doubled): float(price), or the mid-price (bid + ask) / 2.0
JsonPrice(json_data) ==
    IF JsonHasPrice(json_data) THEN 2 * Conv(json_data["price"])
    ELSE IF JsonHasQuote(json_data)
    THEN Conv(json_data["bid"]) + Conv(json_data["ask"])
    ELSE 0

JsonSize_BidOnly(json_data) ==
    IF JsonHasPrice(json_data) THEN Conv(Get(json_data, "size", Num(0)))
    ELSE IF JsonHasQuote(json_data)
    THEN Conv(Get(json_data, "bid_size", Num(0)))
    ELSE 0

\* message.size
JsonSize(json_data) ==
    IF JsonHasPrice(json_data) THEN Conv(Get(json_data, "size", Num(0)))
    ELSE IF JsonHasQuote(json_data)
    THEN Conv(Get(json_data, "bid_size", Num(0)))
         + Conv(Get(json_data, "ask_size", Num(0)))
    ELSE 0

\* message.message_type: QUOTE from the bid/ask branch, then the type key
JsonMessageType(json_data) ==
    LET msg_type == lower(Get(json_data, "type", Str(<<>>)).s)
        from_price == IF JsonHasQuote(json_data) THEN "QUOTE" ELSE "UNKNOWN"
    IN  IF msg_type = <<"t", "r", "a", "d", "e">> THEN "TRADE"
        ELSE IF msg_type = <<"q", "u", "o", "t", "e">> THEN "QUOTE"
        ELSE IF msg_type = <<"o", "r", "d", "e", "r">> THEN "NEW_ORDER"
        ELSE IF from_price = "UNKNOWN" THEN "MARKET_DATA"
        ELSE from_price

\* message.timestamp = int(json_data['timestamp'])
JsonTimestamp(json_data) ==
    IF json_data["timestamp"] # Absent THEN Conv(json_data["timestamp"]) ELSE 0

\* except (json.JSONDecodeError, ValueError, KeyError); UnicodeDecodeError is
\* a ValueError.  The symbol of the model's objects is text or missing.
_parse_websocket_json(d) ==
    IF ~CanDecode(d.bytes) \/ ~JsonLoadsOk(d) THEN InvalidFormat
    ELSE LET json_data == d.rest.obj
             symbol == Get(json_data, "symbol", Null)
             fault == FirstFault(JsonFaults(json_data))
         IN  IF Falsy(symbol) THEN InvalidFormat
             ELSE IF fault = "ValueError" THEN InvalidFormat
             ELSE IF fault # "none" THEN Raise(fault)
             ELSE Return("SUCCESS",
                         Some([MarketMessage EXCEPT
                                  !.symbol = symbol.s,
                                  !.side = JsonSide(json_data),
                                  !.price = JsonPrice(json_data),
                                  !.size = JsonSize(json_data),
                                  !.message_type = JsonMessageType(json_data),
                                  !.timestamp = JsonTimestamp(json_data)]))

-----------------------------------------------------------------------------
(* MessageParser.parse_message *)

\* _get_current_timestamp_ns(): int(time.time() * 1_000_000_000), positive on
\* a clock set after the epoch
ClockValues == {1000, 1001}

\* result, message = self._parse_fix_message(data) / _parse_websocket_json(data)
Extract(proto, d) ==
    IF proto = "FIX" THEN _parse_fix_message(d) ELSE _parse_websocket_json(d)

\* if protocol == ProtocolType.UNKNOWN: self.parse_errors += 1
CountUnknown(errors) == errors + 1

\* if result == ParseResult.SUCCESS: self.messages_parsed += 1
CountParsed(parsed) == parsed + 1

\* else: self.parse_errors += 1
CountFailure(errors) == errors + 1

CountException_Forgotten(errors) == errors

\* except Exception as e: self.parse_errors += 1
CountException(errors) == errors + 1

Backfill_Always(m, now) == [m EXCEPT !.timestamp = now]

\* if message and message.timestamp == 0: message.timestamp = now
Backfill(m, now) == IF m.timestamp = 0 THEN [m EXCEPT !.timestamp = now] ELSE m

\* One whole call: what it returns and what it leaves in the two counters
parse_message_outcome(d, parsed, errors, now) ==
    LET proto == _detect_protocol(d)
        r == Extract(proto, d)
    IN  IF proto = "UNKNOWN"
        THEN [protocol |-> proto, raised |-> "none",
              result |-> "UNKNOWN_PROTOCOL", message |-> None,
              messages_parsed |-> parsed, parse_errors |-> CountUnknown(errors)]
        ELSE IF r.raised # "none"
        THEN [protocol |-> proto, raised |-> r.raised,
              result |-> "INVALID_FORMAT", message |-> None,
              messages_parsed |-> parsed, parse_errors |-> CountException(errors)]
        ELSE IF r.status = "SUCCESS"
        THEN [protocol |-> proto, raised |-> "none",
              result |-> r.status, message |-> Some(Backfill(r.message[1], now)),
              messages_parsed |-> CountParsed(parsed), parse_errors |-> errors]
        ELSE [protocol |-> proto, raised |-> "none",
              result |-> r.status, message |-> r.message,
              messages_parsed |-> parsed, parse_errors |-> CountFailure(errors)]

-----------------------------------------------------------------------------
(* The buffers the callers pass *)

SeqsUpTo(S, n) == UNION {[1..k -> S] : k \in 0..n}

\* Buffers of arbitrary leading bytes
RawBytes == {"8", "=", "{", SP, VT, BAD, "x"}

RawBuffers == {Buffer(b, NoRest) : b \in SeqsUpTo(RawBytes, MaxRaw)}

\* FIX buffers: the header field 8=F, then fields, each closed by SOH
FixFields ==
    {<<"5", "5", "=", "A">>, <<"5", "5", "=">>, <<"5", "5", "=", "A", "|", "B">>,
     <<"5", "8", "=", "z", "|", "5", "5", "=", "C">>, <<"5", "8", "=", BAD>>,
     <<"5", "4", "=", "1">>, <<"5", "4", "=", "2">>,
     <<"4", "4", "=", "3">>, <<"4", "4", "=", "x">>,
     <<"3", "8", "=", "2">>, <<"3", "8", "=", "-", "1">>, <<"3", "8", "=", "x">>,
     <<"3", "5", "=", "D">>, <<"3", "5", "=", "8">>, <<"j", "u", "n", "k">>}

RECURSIVE JoinFields(_)
JoinFields(fs) ==
    IF fs = <<>> THEN <<>> ELSE Head(fs) \o <<SOH>> \o JoinFields(Tail(fs))

FixBuffers ==
    {Buffer(<<"8", "=", "F", SOH>> \o JoinFields(fs), NoRest) :
        fs \in SeqsUpTo(FixFields, MaxFields)}

\* JSON buffers: an opening brace and the members of an object
SymbolValues == {Absent, Str(<<>>), Str(<<"A">>)}

SideValues ==
    {Absent, Null, Str(<<"B", "u", "y">>), Str(<<"b">>),
     Str(<<"S", "E", "L", "L">>), Str(<<"s">>), Str(<<"x">>)}

TypeValues ==
    {Absent, Null, Str(<<"T", "r", "a", "d", "e">>), Str(<<"q", "u", "o", "t", "e">>),
     Str(<<"o", "r", "d", "e", "r">>), Str(<<"x">>)}

TimestampValues == {Absent, Null, Num(0), Num(7), Num(-5)}

PriceBlock(price, size, bid, ask, bid_size, ask_size) ==
    [price |-> price, size |-> size, bid |-> bid, ask |-> ask,
     bid_size |-> bid_size, ask_size |-> ask_size]

PriceBlocks ==
    {PriceBlock(Absent, Absent, Absent, Absent, Absent, Absent),
     PriceBlock(Num(3), Absent, Absent, Absent, Absent, Absent),
     PriceBlock(Num(3), Num(2), Absent, Absent, Absent, Absent),
     PriceBlock(Num(3), Num(-1), Absent, Absent, Absent, Absent),
     PriceBlock(Str(<<"3">>), Str(<<"2">>), Absent, Absent, Absent, Absent),
     PriceBlock(Str(<<"x">>), Absent, Absent, Absent, Absent, Absent),
     PriceBlock(Null, Absent, Absent, Absent, Absent, Absent),
     PriceBlock(Num(3), Str(<<"x">>), Absent, Absent, Absent, Absent),
     PriceBlock(Absent, Absent, Num(2), Absent, Absent, Absent),
     PriceBlock(Absent, Absent, Num(2), Num(4), Absent, Absent),
     PriceBlock(Absent, Num(5), Num(2), Num(4), Absent, Absent),
     PriceBlock(Absent, Absent, Num(2), Num(4), Num(1), Absent),
     PriceBlock(Absent, Absent, Num(2), Num(4), Absent, Num(2)),
     PriceBlock(Absent, Absent, Num(2), Num(4), Num(1), Num(2)),
     PriceBlock(Absent, Absent, Num(2), Num(4), Str(<<"x">>), Num(2)),
     PriceBlock(Num(3), Absent, Num(2), Num(4), Num(1), Num(2))}

JsonObject(symbol, side, block, type, timestamp) ==
    [key \in Keys |->
        CASE key = "symbol" -> symbol
          [] key = "side" -> side
          [] key = "type" -> type
          [] key = "timestamp" -> timestamp
          [] OTHER -> block[key]]

\* An object carries its symbol and at most MaxOptional of the four optional
\* groups of keys: side, price and sizes, type, timestamp
Present(v) == IF v = Absent THEN 0 ELSE 1

BlockPresent(b) ==
    IF b = PriceBlock(Absent, Absent, Absent, Absent, Absent, Absent) THEN 0 ELSE 1

Choices ==
    {c \in SymbolValues \X SideValues \X PriceBlocks \X TypeValues \X TimestampValues :
        Present(c[2]) + BlockPresent(c[3]) + Present(c[4]) + Present(c[5]) <= MaxOptional}

Objects == {JsonObject(c[1], c[2], c[3], c[4], c[5]) : c \in Choices}

\* the bytes before the object's members: whitespace or noise, then the brace
JsonLeads == {<<SP, "{">>, <<VT, "{">>, <<BAD, "{">>, <<"{", "{">>}

LedObjects ==
    {JsonObject(sy, Absent, PriceBlock(Num(3), Absent, Absent, Absent, Absent, Absent),
                Absent, Absent) : sy \in SymbolValues}

JsonBuffers ==
    {Buffer(<<"{">>, Object(o)) : o \in Objects}
    \cup {Buffer(l, Object(o)) : l \in JsonLeads, o \in LedObjects}
    \cup {Buffer(l, Truncated) : l \in JsonLeads \cup {<<"{">>}}

Inputs == RawBuffers \cup FixBuffers \cup JsonBuffers

NoData == Buffer(<<>>, NoRest)

-----------------------------------------------------------------------------
(* One parser used by one caller *)

Threads == {1, 2}

IdleThread ==
    [pc |-> "idle", data |-> NoData, status |-> "NONE", message |-> None,
     reg |-> 0, calls |-> 0]

Init ==
    /\ messages_parsed = 0
    /\ parse_errors = 0
    /\ pc = "idle"
    /\ data = NoData
    /\ protocol = "UNKNOWN"
    /\ result = "NONE"
    /\ message = None
    /\ raised = "none"
    /\ nSuccess = 0
    /\ nFailure = 0
    /\ thr = [t \in Threads |-> IdleThread]

\* result, message = parser.parse_message(msg): the caller passes a buffer
Call(d) ==
    /\ pc = "idle"
    /\ nSuccess + nFailure < MaxCalls
    /\ pc' = "called"
    /\ data' = d
    /\ UNCHANGED <<messages_parsed, parse_errors, protocol, result, message,
                   raised, nSuccess, nFailure, thr>>

\* The body of parse_message, from its first statement to its return
parse_message ==
    /\ pc = "called"
    /\ \E now \in ClockValues :
          LET o == parse_message_outcome(data, messages_parsed, parse_errors, now)
          IN  /\ messages_parsed' = o.messages_parsed
              /\ parse_errors' = o.parse_errors
              /\ protocol' = o.protocol
              /\ result' = o.result
              /\ message' = o.message
              /\ raised' = o.raised
              /\ nSuccess' = nSuccess + (IF o.result = "SUCCESS" THEN 1 ELSE 0)
              /\ nFailure' = nFailure + (IF o.result = "SUCCESS" THEN 0 ELSE 1)
    /\ pc' = "returned"
    /\ UNCHANGED <<data, thr>>

\* The caller is done with the result and goes on to its next statement
Continue ==
    /\ pc = "returned"
    /\ pc' = "idle"
    /\ data' = NoData
    /\ protocol' = "UNKNOWN"
    /\ result' = "NONE"
    /\ message' = None
    /\ raised' = "none"
    /\ UNCHANGED <<messages_parsed, parse_errors, nSuccess, nFailure, thr>>

reset_statistics ==
    /\ pc = "idle"
    /\ messages_parsed' = 0
    /\ parse_errors' = 0
    /\ nSuccess' = 0
    /\ nFailure' = 0
    /\ UNCHANGED <<pc, data, protocol, result, message, raised, thr>>

Next ==
    \/ \E d \in Inputs : Call(d)
    \/ parse_message
    \/ Continue
    \/ reset_statistics

Spec == Init /\ [][Next]_vars

-----------------------------------------------------------------------------
(* One parser shared by several threads.  Detection and extraction work on *)
(* the thread's own data; self.counter += 1 is a load of the attribute     *)
(* followed by a store, and another thread can run between the two.        *)

ConcInputs ==
    {Buffer(<<"8", "=", "F", SOH, "5", "5", "=", "A", SOH>>, NoRest),
     Buffer(<<"{">>, Object(EmptyObject)),
     Buffer(<<"x", "x">>, NoRest)}

\* parser.parse_message(msg) called by thread t
TCall(t, d) ==
    /\ thr[t].pc = "idle"
    /\ thr[t].calls < MaxThreadCalls
    /\ thr' = [thr EXCEPT ![t] = [@ EXCEPT !.pc = "called", !.data = d,
                                            !.calls = @ + 1]]
    /\ UNCHANGED <<messages_parsed, parse_errors, pc, data, protocol, result,
                   message, raised, nSuccess, nFailure>>

\* protocol = self._detect_protocol(data), then the extractor
TExtract(t) ==
    /\ thr[t].pc = "called"
    /\ LET proto == _detect_protocol(thr[t].data)
           r == Extract(proto, thr[t].data)
           status == IF proto = "UNKNOWN" THEN "UNKNOWN_PROTOCOL"
                     ELSE IF r.raised # "none" THEN "INVALID_FORMAT"
                     ELSE r.status
           m == IF status = "SUCCESS" THEN r.message ELSE None
       IN  thr' = [thr EXCEPT ![t] = [@ EXCEPT !.pc = "load", !.status = status,
                                               !.message = m]]
    /\ UNCHANGED <<messages_parsed, parse_errors, pc, data, protocol, result,
                   message, raised, nSuccess, nFailure>>

\* self.messages_parsed += 1 / self.parse_errors += 1: the attribute is read
TLoad(t) ==
    /\ thr[t].pc = "load"
    /\ thr' = [thr EXCEPT ![t] =
                  [@ EXCEPT !.pc = "store",
                            !.reg = IF thr[t].status = "SUCCESS"
                                    THEN messages_parsed ELSE parse_errors]]
    /\ UNCHANGED <<messages_parsed, parse_errors, pc, data, protocol, result,
                   message, raised, nSuccess, nFailure>>

\* ... and the sum is written back; then the timestamp is filled in
TStore(t) ==
    /\ thr[t].pc = "store"
    /\ IF thr[t].status = "SUCCESS"
       THEN /\ messages_parsed' = CountParsed(thr[t].reg)
            /\ UNCHANGED parse_errors
            /\ \E now \in ClockValues :
                  thr' = [thr EXCEPT ![t] =
                             [@ EXCEPT !.pc = "returned",
                                       !.message = Some(Backfill(@[1], now))]]
       ELSE /\ parse_errors' = CountFailure(thr[t].reg)
            /\ UNCHANGED messages_parsed
            /\ thr' = [thr EXCEPT ![t] = [@ EXCEPT !.pc = "returned"]]
    /\ UNCHANGED <<pc, data, protocol, result, message, raised, nSuccess, nFailure>>

\* return result, message: the call of thread t has returned
TReturn(t) ==
    /\ thr[t].pc = "returned"
    /\ nSuccess' = nSuccess + (IF thr[t].status = "SUCCESS" THEN 1 ELSE 0)
    /\ nFailure' = nFailure + (IF thr[t].status = "SUCCESS" THEN 0 ELSE 1)
    /\ thr' = [thr EXCEPT ![t] = [IdleThread EXCEPT !.calls = thr[t].calls]]
    /\ UNCHANGED <<messages_parsed, parse_errors, pc, data, protocol, result,
                   message, raised>>

NextConc ==
    \/ \E t \in Threads, d \in ConcInputs : TCall(t, d)
    \/ \E t \in Threads : TExtract(t)
    \/ \E t \in Threads : TLoad(t)
    \/ \E t \in Threads : TStore(t)
    \/ \E t \in Threads : TReturn(t)

SpecConc == Init /\ [][NextConc]_vars

-----------------------------------------------------------------------------
(* Properties *)

\* The returned MarketMessage, when there is one
msg == message[1]

\* The members of the JSON object in the buffer of the call
members == data.rest.obj

\* A buffer that is a JSON object: optional JSON whitespace, a brace, members
IsJsonObject(d) == CanDecode(d.bytes) /\ JsonLoadsOk(d)

\* The tag -> value mapping of the tag-value grammar: fields separated by the
\* byte 0x01 and nothing else, each tag=value, the last occurrence winning
GrammarFields(bytes) == CollectFields(split(bytes, SOH), <<>>)

TextOrAbsent(v) == v.k \in {"str", "absent"}

IntOrAbsent(v) == v.k \in {"num", "absent"}

IntOr0(v) == IF v.k = "num" THEN v.n ELSE 0

\* C1: after any sequence of parse_message and reset_statistics calls,
\* messages_parsed is the number of calls that returned SUCCESS since
\* construction or the last reset and parse_errors the number that returned
\* any other status; so each call adds exactly 1 to exactly one of the two,
\* and a reset leaves both at 0.
C1_CountersMatchReturns ==
    /\ messages_parsed = nSuccess
    /\ parse_errors = nFailure

C1_Witness ==
    /\ pc = "returned"
    /\ messages_parsed >= 1
    /\ parse_errors >= 1

\* C2: for every input, the returned message is None exactly when the
\* returned status is not SUCCESS.
C2_NoneIffNotSuccess ==
    pc = "returned" => ((message = None) <=> (result # "SUCCESS"))

C2_Witness ==
    /\ pc = "returned"
    /\ result = "SUCCESS"
    /\ message # None

\* The symbol field of the buffer is absent or empty: no tag 55 with a value
\* among the 0x01-separated fields, no non-empty `symbol` among the members
SymbolAbsentOrEmpty(d) ==
    IF StartsWith8Eq(d)
    THEN LET fields == GrammarFields(d.bytes)
         IN  T55 \notin DOMAIN fields \/ fields[T55] = <<>>
    ELSE d.rest.form = "object" /\ d.rest.obj["symbol"] \in {Absent, Str(<<>>)}

\* C3: an input detected as tag-value or JSON whose symbol field (tag 55, key
\* symbol) is absent or empty gets (INVALID_FORMAT, None) and is counted in
\* parse_errors, whatever its other fields are.
C3_MissingSymbolRejected ==
    (/\ pc = "returned"
     /\ protocol \in {"FIX", "WEBSOCKET_JSON"}
     /\ SymbolAbsentOrEmpty(data))
    => (/\ result = "INVALID_FORMAT"
        /\ message = None
        /\ parse_errors >= 1)

\* The source carried a timestamp: the JSON key `timestamp` with an integer
TimestampSupplied == protocol = "WEBSOCKET_JSON" /\ members["timestamp"].k = "num"

\* C4 as stated: every SUCCESS keeps a supplied timestamp exactly, for every
\* supplied value, and has a timestamp > 0 when none was supplied.
C4_EverySuppliedTimestampKept ==
    (pc = "returned" /\ result = "SUCCESS")
    => IF TimestampSupplied
       THEN msg.timestamp = members["timestamp"].n
       ELSE msg.timestamp > 0

\* C4, amended: every SUCCESS keeps a supplied timestamp exactly when it is
\* not 0; a supplied 0 counts as unset, and then, as when the source carried
\* no timestamp, the returned timestamp is the clock's and > 0.
C4_NonZeroTimestampKept ==
    (pc = "returned" /\ result = "SUCCESS")
    => IF TimestampSupplied /\ members["timestamp"].n # 0
       THEN msg.timestamp = members["timestamp"].n
       ELSE msg.timestamp > 0

C4_Witness ==
    /\ pc = "returned"
    /\ result = "SUCCESS"
    /\ TimestampSupplied
    /\ members["timestamp"].n = 7
    /\ msg.timestamp = 7

\* A tag-value buffer as the claim takes it: it starts with 8=, its fields
\* between the 0x01 bytes are tag=value, tag 55 is not empty and tags 44 and
\* 38 are numbers when present
WellFormedFix(d) ==
    /\ StartsWith8Eq(d)
    /\ CanDecode(d.bytes)
    /\ LET segments == split(d.bytes, SOH)
       IN  \A i \in 1..Len(segments) :
              segments[i] = <<>> \/ Contains(segments[i], "=")
    /\ LET fields == GrammarFields(d.bytes)
       IN  /\ T55 \in DOMAIN fields
           /\ fields[T55] # <<>>
           /\ T44 \in DOMAIN fields => IsIntText(fields[T44])
           /\ T38 \in DOMAIN fields => IsIntText(fields[T38])

\* C5: for every such tag-value buffer the result is SUCCESS and the symbol
\* is the whole value of the last tag-55 field, up to the next 0x01; only
\* 0x01 separates fields.
C5_SymbolIsWholeTag55Value ==
    (pc = "returned" /\ WellFormedFix(data))
    => (/\ result = "SUCCESS"
        /\ msg.symbol = GrammarFields(data.bytes)[T55])

\* U+FFFD, what errors='replace' decodes an invalid byte to
REPL == "REPL"

\* bytes.decode('utf-8', errors='replace'): invalid bytes become U+FFFD
DecodeReplace(bytes) == replace(bytes, BAD, REPL)

\* The classification the claim gives: invalid bytes are replaced by U+FFFD
\* before the leading whitespace is stripped
ClaimedProtocol(d) ==
    IF ShorterThan2(d) THEN "UNKNOWN"
    ELSE IF StartsWith8Eq(d) THEN "FIX"
    ELSE LET data_str == lstrip(DecodeReplace(d.bytes))
         IN  IF data_str # <<>> /\ Head(data_str) = "{" THEN "WEBSOCKET_JSON"
             ELSE "UNKNOWN"

\* C6: a buffer shorter than 2 bytes is UNKNOWN, one starting with 8= is FIX,
\* otherwise it is decoded with invalid sequences replaced, not dropped,
\* stripped of leading whitespace, and is WEBSOCKET_JSON exactly when it then
\* starts with a brace; all others are UNKNOWN and get UNKNOWN_PROTOCOL.
C6_DetectionReplacesInvalidBytes ==
    pc = "returned"
    => (/\ protocol = ClaimedProtocol(data)
        /\ protocol = "UNKNOWN" => result = "UNKNOWN_PROTOCOL")

\* C7: every message returned with SUCCESS, from either protocol, has
\* size >= 0.
C7_SizeNonNegative ==
    (pc = "returned" /\ result = "SUCCESS") => msg.size >= 0

\* A JSON object with a symbol, no price, and numeric bid and ask
QuoteInput ==
    /\ IsJsonObject(data)
    /\ ~Falsy(members["symbol"])
    /\ members["price"] = Absent
    /\ members["bid"].k = "num"
    /\ members["ask"].k = "num"

\* ... whose other keys hold what their conversions take
QuoteInputOtherwiseValid ==
    /\ QuoteInput
    /\ TextOrAbsent(members["side"])
    /\ TextOrAbsent(members["type"])
    /\ IntOrAbsent(members["bid_size"])
    /\ IntOrAbsent(members["ask_size"])
    /\ IntOrAbsent(members["timestamp"])

\* C8 as stated: such an input gives SUCCESS, size = bid_size + ask_size
\* (each 0 when missing) and message_type QUOTE, whatever the type key is.
C8_QuoteWhateverTheType ==
    (pc = "returned" /\ QuoteInputOtherwiseValid)
    => (/\ result = "SUCCESS"
        /\ msg.size = IntOr0(members["bid_size"]) + IntOr0(members["ask_size"])
        /\ msg.message_type = "QUOTE")

\* The message type the type key asks for, QUOTE when it asks for none
TypeOverQuote(v) ==
    IF lower(v.s) = <<"t", "r", "a", "d", "e">> THEN "TRADE"
    ELSE IF lower(v.s) = <<"o", "r", "d", "e", "r">> THEN "NEW_ORDER"
    ELSE "QUOTE"

\* C8, amended: a JSON input with a non-empty symbol, no price and numeric
\* bid and ask gives SUCCESS whenever side and type are text or missing and
\* bid_size, ask_size and timestamp are integers or missing, and otherwise
\* SUCCESS or INVALID_FORMAT; every such SUCCESS has size = bid_size +
\* ask_size (each 0 when missing) and message_type QUOTE, except TRADE when
\* type is `trade` and NEW_ORDER when it is `order`, case-insensitively.
C8_QuoteUnlessTradeOrOrder ==
    (pc = "returned" /\ QuoteInput)
    => (/\ result \in {"SUCCESS", "INVALID_FORMAT"}
        /\ QuoteInputOtherwiseValid => result = "SUCCESS"
        /\ result = "SUCCESS" =>
              (/\ msg.size = IntOr0(members["bid_size"]) + IntOr0(members["ask_size"])
               /\ msg.message_type = TypeOverQuote(members["type"])))

C8_Witness ==
    /\ pc = "returned"
    /\ QuoteInput
    /\ members["bid_size"] = Num(1)
    /\ members["ask_size"] = Num(2)
    /\ lower(members["type"].s) = <<"t", "r", "a", "d", "e">>
    /\ result = "SUCCESS"
    /\ msg.size = 3
    /\ msg.message_type = "TRADE"

\* A JSON object with a symbol whose keys other than side are valid
ValidApartFromSide ==
    /\ IsJsonObject(data)
    /\ ~Falsy(members["symbol"])
    /\ \A key \in {"price", "size", "bid", "ask", "bid_size", "ask_size", "timestamp"} :
          IntOrAbsent(members[key])
    /\ TextOrAbsent(members["type"])

\* The side the claim gives for a value of the side key
ClaimedSide(v) ==
    IF v.k # "str" THEN "UNKNOWN"
    ELSE IF lower(v.s) \in {<<"b", "u", "y">>, <<"b">>} THEN "BUY"
    ELSE IF lower(v.s) \in {<<"s", "e", "l", "l">>, <<"s">>} THEN "SELL"
    ELSE "UNKNOWN"

\* C9: for a JSON input with a non-empty symbol and otherwise valid fields
\* the side key never makes the call fail: buy/b give BUY, sell/s give SELL,
\* case-insensitively, and every other value, a missing, null or non-text one
\* included, gives SUCCESS with side UNKNOWN.
C9_SideNeverFails ==
    (pc = "returned" /\ ValidApartFromSide)
    => (/\ result = "SUCCESS"
        /\ msg.side = ClaimedSide(members["side"]))

\* C10: with several threads calling parse_message on one parser, once every
\* call has returned messages_parsed is the number of SUCCESS returns and
\* parse_errors the number of other returns, under every interleaving.
C10_NoLostIncrement ==
    (\A t \in Threads : thr[t].pc = "idle")
    => (/\ messages_parsed = nSuccess
        /\ parse_errors = nFailure)

\* C11: each extractor is total at its own boundary: for every buffer it
\* returns a (status, message) pair and raises nothing, every fault inside it
\* becoming INVALID_FORMAT there, so that the except handler of parse_message
\* is never reached.
C11_ExtractorsNeverRaise ==
    pc = "returned" => raised = "none"

=============================================================================
